---- MODULE Spec2Model ----
(***************************************************************************)
(* Model of utils_finance.py: download_stock, compute_returns and          *)
(* plot_cummulative_returns.                                               *)
(*                                                                         *)
(* Floating-point values are modelled exactly: a value is a tuple          *)
(* <<kind, n, d>> where kind is "nan", "inf" (n = 1 or -1), "rat" (the     *)
(* rational n/d in lowest terms, d > 0), "ln" (the real ln(n/d), n/d > 0   *)
(* and n/d # 1) or "1+ln" (the real 1 + ln(n/d)).  A product that has no   *)
(* closed form in this algebra is kept as <<"mul", a, b>>; none arises,    *)
(* since the cumulative series of the logarithmic mode is infinite or NaN  *)
(* from its first entry on.  Rounding is not modelled; division by zero,   *)
(* log of zero and NaN follow IEEE 754 as numpy applies it (a warning,     *)
(* never an exception).  Two NaN values compare equal.                     *)
(*                                                                         *)
(* A pandas Series is a record [index, values]; a Price Series is a        *)
(* record [index, Close].  Close values are numbers (zero included); a     *)
(* missing Close is not among the inputs.                                  *)
(***************************************************************************)
EXTENDS Integers, Sequences, FiniteSets, TLC

\* Longest Price Series drawn as input.
MaxLen == 3

\* Longest list of ticker symbols drawn as input.
MaxSymbols == 2

\* Close prices drawn as input (100, 110, 99 are the documented example).
CloseVals == {0, 30, 99, 100, 110}

\* Ticker symbols drawn as input.
Symbols == {"AAPL", "MSFT", "GOOG"}

\* -------------------------------------------------------------------------
\* Exact arithmetic on the value domain
\* -------------------------------------------------------------------------

Abs(x) == IF x < 0 THEN -x ELSE x

RECURSIVE GCD(_, _)
GCD(a, b) == IF b = 0 THEN a ELSE GCD(b, a % b)

NaN == <<"nan", 0, 1>>
PInf == <<"inf", 1, 1>>
NInf == <<"inf", -1, 1>>

\* The rational n/d (d # 0) in lowest terms with a positive denominator.
Rat(n, d) ==
    LET g == GCD(Abs(n), Abs(d))
        s == IF d < 0 THEN -1 ELSE 1
    IN  <<"rat", (s * n) \div g, (s * d) \div g>>

Num(v) == Rat(v, 1)

IsNaN(v) == v[1] = "nan"
IsInf(v) == v[1] = "inf"
IsRat(v) == v[1] = "rat"

\* Sign of a non-NaN value: -1, 0 or 1.  1 + ln(n/d) is positive iff
\* n/d > 1/e; 19/7 < e < 87/32 decides it for every ratio outside
\* (32/87, 7/19), and 1 + ln(q) is never 0 for a rational q.
RECURSIVE Sign(_)
Sign(v) ==
    CASE v[1] = "inf" -> v[2]
      [] v[1] = "rat" -> IF v[2] > 0 THEN 1 ELSE IF v[2] < 0 THEN -1 ELSE 0
      [] v[1] = "ln" -> IF v[2] > v[3] THEN 1 ELSE -1
      [] v[1] = "1+ln" -> IF 19 * v[2] >= 7 * v[3] THEN 1
                          ELSE IF 87 * v[2] <= 32 * v[3] THEN -1
                          ELSE 0
      [] v[1] = "mul" -> Sign(v[2]) * Sign(v[3])

\* Mutant of Div: division guarded against a zero divisor (x/0 taken as 0).
DivGuarded(a, b) ==
    IF IsNaN(a) \/ IsNaN(b) THEN NaN
    ELSE IF b[2] = 0 THEN Rat(0, 1)
    ELSE Rat(a[2] * b[3], a[3] * b[2])

\* IEEE division of two finite values or NaN: x/0 is +-inf, 0/0 is NaN.
Div(a, b) ==
    IF IsNaN(a) \/ IsNaN(b) THEN NaN
    ELSE IF b[2] = 0
         THEN (IF a[2] = 0 THEN NaN ELSE IF a[2] > 0 THEN PInf ELSE NInf)
         ELSE Rat(a[2] * b[3], a[3] * b[2])

\* v - 1
Sub1(v) ==
    IF IsRat(v) THEN Rat(v[2] - v[3], v[3]) ELSE v

\* v + 1
Add1(v) ==
    CASE IsRat(v) -> Rat(v[2] + v[3], v[3])
      [] v[1] = "ln" -> <<"1+ln", v[2], v[3]>>
      [] OTHER -> v

\* numpy.log: log(0) = -inf, log(x < 0) = NaN, log(inf) = inf, log(1) = 0.
Log(v) ==
    CASE IsNaN(v) -> NaN
      [] IsInf(v) -> IF v[2] > 0 THEN PInf ELSE NaN
      [] IsRat(v) -> IF v[2] = 0 THEN NInf
                     ELSE IF v[2] < 0 THEN NaN
                     ELSE IF v[2] = v[3] THEN Num(0)
                     ELSE <<"ln", v[2], v[3]>>

\* IEEE multiplication: NaN absorbs, inf * 0 is NaN.
Mul(a, b) ==
    IF IsNaN(a) \/ IsNaN(b) THEN NaN
    ELSE IF IsInf(a) \/ IsInf(b)
         THEN (IF Sign(a) * Sign(b) = 0 THEN NaN
               ELSE IF Sign(a) * Sign(b) > 0 THEN PInf ELSE NInf)
    ELSE IF IsRat(a) /\ IsRat(b) THEN Rat(a[2] * b[2], a[3] * b[3])
    ELSE IF (IsRat(a) /\ a[2] = 0) \/ (IsRat(b) /\ b[2] = 0) THEN Num(0)
    ELSE IF a = Num(1) THEN b
    ELSE IF b = Num(1) THEN a
    ELSE <<"mul", a, b>>

\* -------------------------------------------------------------------------
\* pandas Series operations used by the code
\* -------------------------------------------------------------------------

EmptySeries == [index |-> <<>>, values |-> <<>>]

\* Dates of the first n trading days (weekends skipped), as day numbers.
TradingDays(n) == [i \in 1..n |-> i + 2 * ((i - 1) \div 5)]

\* data['Close']
SelectClose(d) == [index |-> d.index, values |-> d.Close]

\* Series.shift(1, fill_value = fill): same index, values moved one period on.
Shift(s, fill) ==
    [index |-> s.index,
     values |-> [i \in 1..Len(s.values) |->
                    IF i = 1 THEN fill ELSE s.values[i - 1]]]

\* a / b on two Series with the same index.
DivSeries(a, b) ==
    [index |-> a.index,
     values |-> [i \in 1..Len(a.values) |-> Div(a.values[i], b.values[i])]]

\* numpy.log applied to a Series.
LogSeries(s) ==
    [index |-> s.index, values |-> [i \in 1..Len(s.values) |-> Log(s.values[i])]]

\* Mutant of PctChange: the ratio inverted, data.shift(1) / data - 1.
PctChangeInverse(s) ==
    LET q == DivSeries(Shift(s, NaN), s)
    IN  [index |-> s.index,
         values |-> [i \in 1..Len(s.values) |-> Sub1(q.values[i])]]

\* Series.pct_change(): data / data.shift(1) - 1, the first entry NaN.
PctChange(s) ==
    LET q == DivSeries(s, Shift(s, NaN))
    IN  [index |-> s.index,
         values |-> [i \in 1..Len(s.values) |-> Sub1(q.values[i])]]

\* Mutant of AddOne: the + 1 forgotten.
AddOneMissing(s) == s

\* returns + 1
AddOne(s) ==
    [index |-> s.index, values |-> [i \in 1..Len(s.values) |-> Add1(s.values[i])]]

\* Running product of the first i entries of vals.
RECURSIVE RunProd(_, _)
RunProd(vals, i) ==
    IF i = 0 THEN Num(1) ELSE Mul(RunProd(vals, i - 1), vals[i])

\* Series.cumprod() (skipna = True): NaN entries are replaced by 1 for the
\* accumulation and put back as NaN in the result.
CumProd(s) ==
    LET masked == [i \in 1..Len(s.values) |->
                      IF IsNaN(s.values[i]) THEN Num(1) ELSE s.values[i]]
    IN  [index |-> s.index,
         values |-> [i \in 1..Len(s.values) |->
                        IF IsNaN(s.values[i]) THEN NaN ELSE RunProd(masked, i)]]

\* -------------------------------------------------------------------------
\* compute_returns
\* -------------------------------------------------------------------------

\* Mutant of LogReturns: the conventional ratio, log(series / shifted).
LogReturnsConventional(series) ==
    LogSeries(DivSeries(series, Shift(series, Num(0))))

\* Logarithmic branch: log(series.shift(1, fill_value = 0) / series).
LogReturns(series) == LogSeries(DivSeries(Shift(series, Num(0)), series))

\* Does returns[0] = 1 raise?  On a date-indexed Series the integer key is
\* positional, so it raises IndexError exactly when the Series is empty.
SetFirstRaises(s) == Len(s.values) = 0

\* Mutant of SetFirst: the key 0 taken as a new label and appended.
SetFirstByLabel(s) ==
    [index |-> Append(s.index, 0), values |-> Append(s.values, Num(1))]

\* returns[0] = 1
SetFirst(s) == [s EXCEPT !.values[1] = Num(1)]

\* Mutant of SimpleReturns: the first entry left as pct_change gives it.
SimpleReturnsNoSentinel(series) == PctChange(series)

\* Simple branch: pct_change() then returns[0] = 1.
SimpleReturns(series) == SetFirst(PctChange(series))

\* Whether compute_returns(d, lg) raises.
ComputeRaises(d, lg) == ~lg /\ SetFirstRaises(PctChange(SelectClose(d)))

\* The Series compute_returns(d, lg) returns when it does not raise.
compute_returns(d, lg) ==
    IF lg THEN LogReturns(SelectClose(d)) ELSE SimpleReturns(SelectClose(d))

\* -------------------------------------------------------------------------
\* download_stock: the provider and the column handling
\* -------------------------------------------------------------------------

\* Attributes of the provider's reply, in the order its columns come.
ProviderAttributes == <<"Adj Close", "Close", "High", "Low", "Open", "Volume">>

\* Column labels of pdr.get_data_yahoo(symbols = syms, ...): two levels,
\* (attribute, symbol), one column per attribute and requested symbol.
Response(syms) ==
    LET k == Len(syms)
        cols == [j \in 1..(Len(ProviderAttributes) * k) |->
                    <<ProviderAttributes[((j - 1) \div k) + 1], syms[((j - 1) % k) + 1]>>]
    IN  [index |-> TradingDays(MaxLen), columns |-> cols, origin |-> cols]

\* df.columns = df.columns.get_level_values(1)
FlattenLabels(d) ==
    [d EXCEPT !.columns = [j \in 1..Len(d.columns) |-> <<d.columns[j][2]>>]]

\* The names assigned by position on line 53.
NewNames == <<"Adj Close", "Close", "High", "Low", "Open", "Volume">>

\* df.columns = [...] raises ValueError unless the lengths match.
RenameRaises(d) == Len(d.columns) # Len(NewNames)

RenameLabels(d) ==
    [d EXCEPT !.columns = [j \in 1..Len(NewNames) |-> <<NewNames[j]>>]]

\* Mutant of OutputOrder: the conventional open-high-low-close order.
OutputOrderOHLC == <<"Open", "High", "Low", "Close", "Volume">>

\* The column order selected on line 56.
OutputOrder == <<"Open", "Low", "Close", "High", "Volume">>

\* Position of the column labelled name.
Position(d, name) == CHOOSE j \in 1..Len(d.columns) : d.columns[j] = <<name>>

\* df[['Open', 'Low', 'Close', 'High', 'Volume']]
SelectColumns(d) ==
    [index |-> d.index,
     columns |-> [j \in 1..Len(OutputOrder) |-> <<OutputOrder[j]>>],
     origin |-> [j \in 1..Len(OutputOrder) |-> d.origin[Position(d, OutputOrder[j])]]]

EmptyFrame == [index |-> <<>>, columns |-> <<>>, origin |-> <<>>]

\* -------------------------------------------------------------------------
\* State
\* -------------------------------------------------------------------------

VARIABLES
    call,       \* the function being called
    pc,         \* position in it; "done" (returned) or "raised"
    exc,        \* the exception that left the function, or "none"
    stock,      \* download_stock: the list of ticker symbols
    logLines,   \* download_stock: symbols named by the log lines emitted
    requests,   \* download_stock: symbol lists sent to the provider
    df,         \* download_stock: the local table df
    data,       \* compute_returns / plot: the Price Series
    log,        \* compute_returns / plot: the mode flag
    show,       \* plot: the show flag
    returns,    \* compute_returns / plot: the local Series returns
    returned    \* what the call returned: "nothing", "df", "returns", "ax", "None"

vars == <<call, pc, exc, stock, logLines, requests, df, data, log, show,
          returns, returned>>

\* Non-empty lists of distinct symbols, of at most MaxSymbols entries.
StockLists ==
    UNION {{l \in [1..n -> Symbols] : \A i, j \in 1..n : l[i] = l[j] => i = j} :
             n \in 1..MaxSymbols}

\* Price Series of at most MaxLen trading days.
PriceSeries ==
    UNION {{[index |-> TradingDays(n), Close |-> [i \in 1..n |-> Num(c[i])]] :
              c \in [1..n -> CloseVals]} : n \in 0..MaxLen}

EmptyData == [index |-> <<>>, Close |-> <<>>]

InitDownload ==
    /\ call = "download_stock"
    /\ pc = "log"
    /\ stock \in StockLists
    /\ data = EmptyData
    /\ log = FALSE
    /\ show = FALSE

InitCompute ==
    /\ call = "compute_returns"
    /\ pc = "compute"
    /\ stock = <<>>
    /\ log \in BOOLEAN
    /\ data \in PriceSeries
    /\ show = FALSE

InitPlot ==
    /\ call = "plot_cummulative_returns"
    /\ pc = "returns"
    /\ stock = <<>>
    /\ log \in BOOLEAN
    /\ show \in BOOLEAN
    /\ data \in PriceSeries

Init ==
    /\ (InitDownload \/ InitCompute \/ InitPlot)
    /\ exc = "none"
    /\ logLines = <<>>
    /\ requests = <<>>
    /\ df = EmptyFrame
    /\ returns = EmptySeries
    /\ returned = "nothing"

\* -------------------------------------------------------------------------
\* download_stock
\* -------------------------------------------------------------------------

\* logger.info('Download data from {}'.format(stock[0]))
LogInfo ==
    /\ call = "download_stock" /\ pc = "log"
    /\ logLines' = Append(logLines, stock[1])
    /\ pc' = "request"
    /\ UNCHANGED <<call, exc, stock, requests, df, data, log, show, returns, returned>>

\* pdr.get_data_yahoo(symbols = stock, ...) answers.
RequestAnswered ==
    /\ call = "download_stock" /\ pc = "request"
    /\ requests' = Append(requests, stock)
    /\ df' = Response(stock)
    /\ pc' = "flatten"
    /\ UNCHANGED <<call, exc, stock, logLines, data, log, show, returns, returned>>

\* Mutant of RequestFails: the failure is caught and the request retried.
RequestFailsRetry ==
    /\ call = "download_stock" /\ pc = "request"
    /\ Len(requests) < 2
    /\ requests' = Append(requests, stock)
    /\ UNCHANGED <<call, pc, exc, stock, logLines, df, data, log, show, returns, returned>>

\* pdr.get_data_yahoo(symbols = stock, ...) raises; nothing catches it.
RequestFails ==
    /\ call = "download_stock" /\ pc = "request"
    /\ requests' = Append(requests, stock)
    /\ exc' = "RemoteDataError"
    /\ pc' = "raised"
    /\ UNCHANGED <<call, stock, logLines, df, data, log, show, returns, returned>>

\* Lines 48-50: keep level 1 of the column labels, drop the names.
FlattenColumns ==
    /\ call = "download_stock" /\ pc = "flatten"
    /\ df' = FlattenLabels(df)
    /\ pc' = "rename"
    /\ UNCHANGED <<call, exc, stock, logLines, requests, data, log, show, returns, returned>>

\* Line 53: rename the columns by position.
RenameColumns ==
    /\ call = "download_stock" /\ pc = "rename"
    /\ IF RenameRaises(df)
       THEN /\ exc' = "ValueError"
            /\ pc' = "raised"
            /\ df' = df
       ELSE /\ df' = RenameLabels(df)
            /\ pc' = "reorder"
            /\ exc' = exc
    /\ UNCHANGED <<call, stock, logLines, requests, data, log, show, returns, returned>>

\* Lines 56-58: select the five columns and return the table.
ReorderColumns ==
    /\ call = "download_stock" /\ pc = "reorder"
    /\ df' = SelectColumns(df)
    /\ returned' = "df"
    /\ pc' = "done"
    /\ UNCHANGED <<call, exc, stock, logLines, requests, data, log, show, returns>>

\* -------------------------------------------------------------------------
\* compute_returns and plot_cummulative_returns
\* -------------------------------------------------------------------------

\* compute_returns(data, log) called directly.
ComputeReturns ==
    /\ call = "compute_returns" /\ pc = "compute"
    /\ IF ComputeRaises(data, log)
       THEN /\ exc' = "IndexError"
            /\ pc' = "raised"
            /\ UNCHANGED <<returns, returned>>
       ELSE /\ returns' = compute_returns(data, log)
            /\ returned' = "returns"
            /\ pc' = "done"
            /\ exc' = exc
    /\ UNCHANGED <<call, stock, logLines, requests, df, data, log, show>>

\* Line 130: returns = compute_returns(data, log = log)
PlotReturns ==
    /\ call = "plot_cummulative_returns" /\ pc = "returns"
    /\ IF ComputeRaises(data, log)
       THEN /\ exc' = "IndexError"
            /\ pc' = "raised"
            /\ returns' = returns
       ELSE /\ returns' = compute_returns(data, log)
            /\ pc' = "cumprod"
            /\ exc' = exc
    /\ UNCHANGED <<call, stock, logLines, requests, df, data, log, show, returned>>

\* Line 133: returns = (returns + 1).cumprod()
PlotCumprod ==
    /\ call = "plot_cummulative_returns" /\ pc = "cumprod"
    /\ returns' = CumProd(AddOne(returns))
    /\ pc' = "render"
    /\ UNCHANGED <<call, exc, stock, logLines, requests, df, data, log, show, returned>>

\* Lines 136-147: draw the line plot; show it, or return the axes.
PlotRender ==
    /\ call = "plot_cummulative_returns" /\ pc = "render"
    /\ returned' = IF show THEN "None" ELSE "ax"
    /\ pc' = "done"
    /\ UNCHANGED <<call, exc, stock, logLines, requests, df, data, log, show, returns>>

Next ==
    \/ LogInfo
    \/ RequestAnswered
    \/ RequestFails
    \/ FlattenColumns
    \/ RenameColumns
    \/ ReorderColumns
    \/ ComputeReturns
    \/ PlotReturns
    \/ PlotCumprod
    \/ PlotRender

Spec == Init /\ [][Next]_vars

\* -------------------------------------------------------------------------
\* Properties
\* -------------------------------------------------------------------------

\* The variable returns holds what compute_returns returned.
ReturnsReady ==
    \/ (call = "compute_returns" /\ pc = "done")
    \/ (call = "plot_cummulative_returns" /\ pc = "cumprod")

\* A call of compute_returns (direct or from the plot) has ended.
ComputeEnded ==
    \/ (call = "compute_returns" /\ pc \in {"done", "raised"})
    \/ (call = "plot_cummulative_returns" /\ pc \in {"cumprod", "raised"})

Close == data.Close
N == Len(data.Close)

C2_SimpleFirstIsOne ==
    (ReturnsReady /\ ~log) =>
        (Len(returns.values) >= 1 /\ returns.values[1] = Num(1))

\* C2 witness: simple returns of a series starting at a zero Close.
C2_Witness ==
    /\ ReturnsReady /\ ~log /\ N >= 2
    /\ Close[1] = Num(0)
    /\ returns.values[1] = Num(1)

\* C3: logarithmic mode, n >= 2: for every index i >= 1 the return at i is
\* ln(Close[i-1]/Close[i]), which is not ln(Close[i]/Close[i-1]) whenever the
\* two prices are positive and differ.
C3_LogReturnInverse ==
    (ReturnsReady /\ log /\ N >= 2) =>
        \A i \in 2..N :
            /\ returns.values[i] = Log(Div(Close[i - 1], Close[i]))
            /\ (Close[i][2] > 0 /\ Close[i - 1][2] > 0 /\ Close[i] # Close[i - 1])
                 => returns.values[i] # Log(Div(Close[i], Close[i - 1]))

\* C3 witness: the log return of 100 -> 110 is ln(10/11).
C3_Witness ==
    /\ ReturnsReady /\ log /\ N >= 2
    /\ Close[1] = Num(100) /\ Close[2] = Num(110)
    /\ returns.values[2] = <<"ln", 10, 11>>

\* C4 as stated: for a Price Series of any length n and either mode,
\* compute_returns returns a Series of n entries on the input's index.
C4_Original ==
    ComputeEnded =>
        /\ pc # "raised"
        /\ Len(returns.values) = N
        /\ returns.index = data.index

\* C4 amended: compute_returns returns a Series of n entries on the input's
\* index for every Price Series in logarithmic mode and for every non-empty
\* Price Series in simple mode; on an empty Price Series in simple mode it
\* raises IndexError and returns nothing.
C4_LengthAndIndex ==
    ComputeEnded =>
        IF ~log /\ N = 0
        THEN pc = "raised" /\ exc = "IndexError" /\ returned = "nothing"
        ELSE /\ pc # "raised"
             /\ Len(returns.values) = N
             /\ returns.index = data.index

\* C4 witness: a three-day series has produced three returns on its dates.
C4_Witness ==
    /\ call = "compute_returns" /\ pc = "done" /\ N = 3
    /\ Len(returns.values) = 3
    /\ returns.index = <<1, 2, 3>>

\* What compute_returns gives for the same data and mode.
R == compute_returns(data, log).values

\* The plot has computed the Cumulative Return Series (held in returns).
CumReady == call = "plot_cummulative_returns" /\ pc \in {"render", "done"}

\* The documented example: Close = [100, 110, 99] in simple mode.
IsExample == ~log /\ Close = <<Num(100), Num(110), Num(99)>>

ExampleHolds ==
    /\ R = <<Num(1), Rat(1, 10), Rat(-1, 10)>>
    /\ returns.values = <<Num(2), Rat(11, 5), Rat(99, 50)>>

\* C5 as stated: cumret[0] = 1 + return[0] and, for every i >= 1,
\* cumret[i] = cumret[i-1] * (1 + return[i]); the example gives
\* [1, 0.1, -0.1] and [2.0, 2.2, 1.98].
C5_Original ==
    CumReady =>
        /\ N >= 1 => returns.values[1] = Add1(R[1])
        /\ \A i \in 2..N :
              returns.values[i] = Mul(returns.values[i - 1], Add1(R[i]))
        /\ IsExample => ExampleHolds

\* C5 amended: cumret[0] = 1 + return[0] and cumret[i] =
\* cumret[i-1] * (1 + return[i]) for every i >= 1 at which return[i-1] is not
\* NaN or return[i] is NaN (the running product skips a NaN return: the entry
\* is NaN and the product resumes after it); the example gives [1, 0.1, -0.1]
\* and [2.0, 2.2, 1.98].
C5_Cumulative ==
    CumReady =>
        /\ N >= 1 => returns.values[1] = Add1(R[1])
        /\ \A i \in 2..N :
              (~IsNaN(R[i - 1]) \/ IsNaN(R[i])) =>
                  returns.values[i] = Mul(returns.values[i - 1], Add1(R[i]))
        /\ IsExample => ExampleHolds

\* C5 witness: the cumulative series of the example has been computed.
C5_Witness ==
    /\ CumReady /\ IsExample
    /\ returns.values[3] = Rat(99, 50)

\* C6 as stated: in both modes, for every non-empty Price Series, the
\* first return is a defined finite value, not NaN and not infinite.
C6_FirstEntryDefined ==
    (ReturnsReady /\ N >= 1) => IsRat(returns.values[1])

\* C7 as stated: a zero Close at i > 0 gives return[i] = -1 in simple mode
\* and an infinite or NaN value in logarithmic mode; nothing is raised and a
\* full Return Series is returned.
C7_Original ==
    (ComputeEnded /\ \E i \in 2..N : Close[i] = Num(0)) =>
        /\ pc # "raised" /\ exc = "none"
        /\ Len(returns.values) = N
        /\ \A i \in 2..N : Close[i] = Num(0) =>
              IF log THEN IsInf(returns.values[i]) \/ IsNaN(returns.values[i])
              ELSE returns.values[i] = Num(-1)

\* C7 amended: a zero Close at i > 0 gives, in simple mode, return[i] = -1
\* when Close[i-1] is not zero and NaN when Close[i-1] is zero too, and in
\* logarithmic mode an infinite or NaN value; nothing is raised and a full
\* Return Series is returned.
C7_ZeroClose ==
    (ComputeEnded /\ \E i \in 2..N : Close[i] = Num(0)) =>
        /\ pc # "raised" /\ exc = "none"
        /\ Len(returns.values) = N
        /\ \A i \in 2..N : Close[i] = Num(0) =>
              IF log THEN IsInf(returns.values[i]) \/ IsNaN(returns.values[i])
              ELSE IF Close[i - 1] = Num(0) THEN IsNaN(returns.values[i])
              ELSE returns.values[i] = Num(-1)

\* C7 witness: simple mode returned -1 at a zero Close that follows a
\* non-zero Close, and NaN at the zero Close after it.
C7_Witness ==
    /\ call = "compute_returns" /\ pc = "done" /\ ~log /\ N = 3
    /\ Close[1] # Num(0) /\ Close[2] = Num(0) /\ Close[3] = Num(0)
    /\ returns.values[2] = Num(-1)
    /\ IsNaN(returns.values[3])

\* download_stock has returned its table.
DownloadDone == call = "download_stock" /\ pc = "done"

\* C8: a successful download_stock returns a table on the provider's dates
\* whose columns are exactly Open, Low, Close, High, Volume in that order,
\* single-level, without Adj Close.
C8_OutputColumns ==
    DownloadDone =>
        /\ returned = "df"
        /\ df.columns = <<<<"Open">>, <<"Low">>, <<"Close">>, <<"High">>, <<"Volume">>>>
        /\ \A j \in 1..Len(df.columns) : df.columns[j] # <<"Adj Close">>
        /\ df.index = TradingDays(MaxLen)

\* C8 witness: a download has returned a five-column table.
C8_Witness ==
    /\ DownloadDone
    /\ Len(df.columns) = 5
    /\ Len(requests) = 1

\* C9 as stated: given a list of symbols, only the first is used: the
\* provider is asked for that symbol alone and the returned table holds that
\* symbol's data, whatever follows it in the list.
C9_OnlyFirstSymbol ==
    call = "download_stock" =>
        /\ \A k \in 1..Len(requests) : requests[k] = <<stock[1]>>
        /\ (pc = "raised" => exc = "RemoteDataError")
        /\ (pc = "done" => \A j \in 1..Len(df.origin) : df.origin[j][2] = stock[1])

\* C10: each download_stock call emits its one log line, then issues exactly
\* one request; a failed request propagates as raised, with no retry, no
\* fallback and no table returned.
C10_OneLogOneRequest ==
    call = "download_stock" =>
        /\ Len(logLines) <= 1 /\ Len(requests) <= 1
        /\ (Len(requests) = 1 => logLines = <<stock[1]>>)
        /\ (pc = "log") = (Len(logLines) = 0)
        /\ (pc \in {"log", "request"}) = (Len(requests) = 0)
        /\ (exc = "RemoteDataError" =>
              /\ pc = "raised"
              /\ returned = "nothing"
              /\ df = EmptyFrame
              /\ Len(requests) = 1)

\* C10 witness: the single request failed after the log line and the call
\* ended by raising.
C10_Witness ==
    /\ call = "download_stock" /\ pc = "raised"
    /\ exc = "RemoteDataError"
    /\ Len(logLines) = 1 /\ Len(requests) = 1

====
